---- MODULE Spec2Model ----
(***************************************************************************)
(* One run of final_project.py: the Streamlit script is executed top to    *)
(* bottom.  The state is the script's module-level names, the widget       *)
(* inputs it reads, what it has shown with st.error / st.write, and the    *)
(* position of the run (pc).                                               *)
(***************************************************************************)
EXTENDS Integers, Sequences, FiniteSets, TLC

(* ------------------------------------------------------------------ *)
(* Bounds of the model                                                 *)
(* ------------------------------------------------------------------ *)

\* Largest number of rows in new_england_airports.csv.
MaxRows == 3

\* Rows kept by head(): the script keeps 10, scaled here to the row bound.
TopN == 2

\* ------------------------------------------------------------------
\* Cell values
\* ------------------------------------------------------------------

\* A missing cell of a text (object) column: read_csv stores float nan there.
NA == "NaN"

\* A name the script has not bound yet.
Unbound == "unbound"

\* What st.selectbox returns when its option list is empty.
None == "None"

\* float64 cells: nan, or the exact rational num/den (den > 0, lowest terms).
NaN == [nan |-> TRUE, num |-> 0, den |-> 1]

Float(x) == [nan |-> FALSE, num |-> x, den |-> 1]

isna(x) == x = NA

isnan(f) == f.nan

\* Elementwise == of pandas on an object column: nan equals nothing, and
\* no cell equals None.
Eq(a, b) == ~isna(a) /\ ~isna(b) /\ a # None /\ b # None /\ a = b

\* The strings that occur, in Python's str ordering.
Lexical == <<"Avon", "Bolton", "US-CT", "US-MA">>

Rank(s) == CHOOSE i \in 1..Len(Lexical) : Lexical[i] = s

StrLess(a, b) == Rank(a) < Rank(b)

Abs(x) == IF x < 0 THEN -x ELSE x

RECURSIVE Gcd(_, _)
Gcd(a, b) == IF b = 0 THEN a ELSE Gcd(b, a % b)

\* The float64 value num/den.
Quot(n, d) ==
    LET g == Gcd(Abs(n), d)
    IN  [nan |-> FALSE, num |-> n \div g, den |-> d \div g]

\* ------------------------------------------------------------------
\* The data source
\* ------------------------------------------------------------------

Airport(n, m, r, t, s, e, la, lo) ==
    [name |-> n, municipality |-> m, iso_region |-> r, type |-> t,
     scheduled_service |-> s, elevation_ft |-> e,
     latitude_deg |-> la, longitude_deg |-> lo]

\* The lines the CSV file is made of.
CsvLines ==
    { Airport("Al",  "Avon",   "US-CT", "heliport",      "yes", Float(100),  Float(41), Float(-72)),
      Airport("Bea", "Avon",   "US-CT", "small_airport", "no",  Float(3000), Float(42), Float(-71)),
      Airport("Cy",  "Bolton", "US-MA", "heliport",      "yes", Float(3000), Float(43), Float(-70)),
      Airport("Di",  NA,       "US-CT", "small_airport", "yes", NaN,         Float(41), Float(-72)),
      Airport("Ed",  "Avon",   NA,      "heliport",      "no",  Float(100),  Float(42), Float(-71)),
      Airport("Flo", "Bolton", "US-MA", NA,              "no",  Float(100),  Float(43), Float(-70)),
      Airport(NA,    "Bolton", "US-CT", "heliport",      "yes", Float(3000), Float(41), Float(-72)),
      Airport("Gus", "Avon",   "US-MA", "small_airport", "yes", Float(100),  NaN,       Float(-70)),
      Airport("Hal", "Bolton", "US-CT", "heliport",      "no",  Float(3000), Float(42), NaN),
      Airport("Ira", "Avon",   "US-MA", "small_airport", "no",  Float(2000), Float(43), Float(-70)) }

SeqsUpTo(S, n) == UNION { [1..k -> S] : k \in 0..n }

FileKinds == {"missing", "malformed", "ok"}

VARIABLES
    file,          \* whether new_england_airports.csv exists and parses
    csv,           \* its rows
    pc,            \* position of the run
    data,          \* the module-level DataFrame
    shown,         \* what st.error / st.write have put on the page
    exception,     \* the uncaught exception that ended the run, if any
    page,          \* st.sidebar.radio
    count_default, elev_default, count_custom, elev_custom,
    region_list, selected_region, region_airports, city_list, selected_city,
    show_scheduled_only, city_filtered_airports,
    region_counts, top_elev, pivot,
    view,          \* latitude / longitude of pdk.ViewState
    region_lengths

vars == <<file, csv, pc, data, shown, exception, page,
          count_default, elev_default, count_custom, elev_custom,
          region_list, selected_region, region_airports, city_list, selected_city,
          show_scheduled_only, city_filtered_airports,
          region_counts, top_elev, pivot, view, region_lengths>>

summaryVars == <<count_default, elev_default, count_custom, elev_custom>>

filterVars == <<region_list, selected_region, region_airports, city_list, selected_city,
                show_scheduled_only, city_filtered_airports>>

chartVars == <<region_counts, top_elev, pivot>>

\* ------------------------------------------------------------------
\* pandas and Python operations the script uses
\* ------------------------------------------------------------------

\* pd.read_csv: the rows under a RangeIndex 0, 1, 2, ...
read_csv(rows) == [i \in 1..Len(rows) |-> rows[i] @@ [index |-> i - 1]]

\* dropna with a fault: only the latitude is looked at.
dropna_latitude_only(df) == SelectSeq(df, LAMBDA row : ~isnan(row.latitude_deg))

\* df.dropna(subset=['latitude_deg', 'longitude_deg'])
dropna(df) ==
    SelectSeq(df, LAMBDA row : ~isnan(row.latitude_deg) /\ ~isnan(row.longitude_deg))

Column(df, f) == [i \in 1..Len(df) |-> df[i][f]]

\* df[mask]: the rows whose mask entry is True, in their order.
BoolIndex(df, mask) ==
    LET F[i \in 0..Len(df)] ==
            IF i = 0 THEN <<>>
            ELSE IF mask[i] THEN Append(F[i - 1], df[i]) ELSE F[i - 1]
    IN  F[Len(df)]

\* WhereEq with a fault: nan is taken to equal nan.
WhereEq_nan_equal(df, f, value) ==
    BoolIndex(df, [i \in 1..Len(df) |-> value # None /\ df[i][f] = value])

\* df[df[f] == value]
WhereEq(df, f, value) == BoolIndex(df, [i \in 1..Len(df) |-> Eq(df[i][f], value)])

\* Line 63: data[data['iso_region'] == selected_region]
filter_by_region(df, region) == WhereEq(df, "iso_region", region)

\* Line 70: region_airports[region_airports['scheduled_service'] == 'yes']
filter_scheduled_service(df) == WhereEq(df, "scheduled_service", "yes")

\* Line 80: region_airports[region_airports['municipality'] == selected_city]
filter_by_city(df, city) == WhereEq(df, "municipality", city)

\* Series.dropna() of an object column.
series_dropna(col) == SelectSeq(col, LAMBDA x : ~isna(x))

\* Series.unique(): the distinct values in order of first appearance, nan
\* (once) among them.
unique(col) ==
    LET F[i \in 0..Len(col)] ==
            IF i = 0 THEN <<>>
            ELSE IF \E j \in 1..Len(F[i - 1]) : F[i - 1][j] = col[i]
                 THEN F[i - 1]
                 ELSE Append(F[i - 1], col[i])
    IN  F[Len(col)]

\* sorted() compares elements with <: a float nan next to a str raises
\* TypeError; a list of one element is never compared.
sorted_raises(list) ==
    /\ \E i \in 1..Len(list) : isna(list[i])
    /\ \E i \in 1..Len(list) : ~isna(list[i])

\* Insert x into the ascending list s, after the elements equal to it.
Insert(s, x) ==
    LET k == Cardinality({i \in 1..Len(s) : ~StrLess(x, s[i])})
    IN  SubSeq(s, 1, k) \o <<x>> \o SubSeq(s, k + 1, Len(s))

\* sorted(list) where it does not raise.
sorted(list) ==
    LET F[i \in 0..Len(list)] ==
            IF i = 0 THEN <<>> ELSE Insert(F[i - 1], list[i])
    IN  IF \E i \in 1..Len(list) : isna(list[i]) THEN list ELSE F[Len(list)]

\* What st.selectbox can return: one of the options, None when there is none.
selectbox(options) ==
    IF options = <<>> THEN {None} ELSE {options[i] : i \in 1..Len(options)}

RECURSIVE SetMax(_)
SetMax(S) ==
    LET x == CHOOSE y \in S : TRUE
    IN  IF S = {x} THEN x
        ELSE LET m == SetMax(S \ {x}) IN IF x > m THEN x ELSE m

\* series_max with a fault: an empty selection gives 0.
series_max_zero(col) ==
    LET present == {col[i].num : i \in {j \in 1..Len(col) : ~isnan(col[j])}}
    IN  IF present = {} THEN Float(0) ELSE Float(SetMax(present))

\* Series.max(): the largest non-nan cell, nan when there is none.
series_max(col) ==
    LET present == {col[i].num : i \in {j \in 1..Len(col) : ~isnan(col[j])}}
    IN  IF present = {} THEN NaN ELSE Float(SetMax(present))

\* Series.mean(): the mean of the non-nan cells, nan when there is none.
series_mean(col) ==
    LET kept == SelectSeq(col, LAMBDA x : ~isnan(x))
        S[i \in 0..Len(kept)] == IF i = 0 THEN 0 ELSE S[i - 1] + kept[i].num
    IN  IF Len(kept) = 0 THEN NaN ELSE Quot(S[Len(kept)], Len(kept))

\* Lines 46-50.
region_summary(df, region) ==
    LET subset   == WhereEq(df, "iso_region", region)
        count    == Len(subset)
        max_elev == series_max(Column(subset, "elevation_ft"))
    IN  <<count, max_elev>>

\* Series.value_counts(): the count of every non-nan value.
value_counts(col) ==
    [v \in {col[i] : i \in {j \in 1..Len(col) : ~isna(col[j])}} |->
        Cardinality({i \in 1..Len(col) : col[i] = v})]

\* pivot_table with a fault: every cell of a row holds the size of the row's
\* whole group.
pivot_table_by_index(df, index, columns) ==
    LET kept == {i \in 1..Len(df) : ~isna(df[i][index]) /\ ~isna(df[i][columns])}
        R    == {df[i][index] : i \in kept}
        C    == {df[i][columns] : i \in kept}
    IN  [rc \in R \X C |-> Cardinality({i \in kept : df[i][index] = rc[1]})]

\* pd.pivot_table(df, index=, columns=, aggfunc='size', fill_value=0): the
\* rows are grouped by the two keys, rows with a nan key left out, and the
\* sizes laid out over the observed keys with 0 where a pair has no row.
pivot_table(df, index, columns) ==
    LET kept == {i \in 1..Len(df) : ~isna(df[i][index]) /\ ~isna(df[i][columns])}
        R    == {df[i][index] : i \in kept}
        C    == {df[i][columns] : i \in kept}
    IN  [rc \in R \X C |->
            Cardinality({i \in kept : df[i][index] = rc[1] /\ df[i][columns] = rc[2]})]

\* df.sort_values(by=, ascending=False): the default kind is quicksort, which
\* is not stable, so rows with equal keys come out in any order; rows with a
\* nan key are put last in their original order.
sort_values_desc(df, by) ==
    LET keyed == SelectSeq(df, LAMBDA row : ~isnan(row[by]))
        nans  == SelectSeq(df, LAMBDA row : isnan(row[by]))
        n     == Len(keyed)
        order == {p \in [1..n -> 1..n] :
                     /\ \A i, j \in 1..n : i # j => p[i] # p[j]
                     /\ \A i, j \in 1..n :
                            i < j => keyed[p[i]][by].num >= keyed[p[j]][by].num}
    IN  {[i \in 1..n |-> keyed[p[i]]] \o nans : p \in order}

\* df.head(n)
head(df, n) == SubSeq(df, 1, IF n < Len(df) THEN n ELSE Len(df))

\* after_sort_values with a fault: the sort is done in place.
after_sort_values_inplace(df, result) == result

\* The frame sort_values was called on: inplace is False, it is left as it was.
after_sort_values(df, result) == df

\* high_altitude with a fault: a missing elevation counts as high.
high_altitude_nan_true(e) == isnan(e) \/ e.num > 2000

\* data['elevation_ft'] > 2000: False on nan.
high_altitude(e) == ~isnan(e) /\ e.num > 2000

\* data['name'].apply(len)
name_length(n) == Len(n)

Init ==
    /\ file \in FileKinds
    /\ csv \in IF file = "ok" THEN SeqsUpTo(CsvLines, MaxRows) ELSE {<<>>}
    /\ pc = "load"
    /\ data = Unbound
    /\ shown = <<>>
    /\ exception = "none"
    /\ page = Unbound
    /\ count_default = Unbound /\ elev_default = Unbound
    /\ count_custom = Unbound /\ elev_custom = Unbound
    /\ region_list = Unbound /\ selected_region = Unbound
    /\ region_airports = Unbound /\ city_list = Unbound
    /\ selected_city = Unbound /\ show_scheduled_only = Unbound
    /\ city_filtered_airports = Unbound
    /\ region_counts = Unbound /\ top_elev = Unbound /\ pivot = Unbound
    /\ view = Unbound
    /\ region_lengths = Unbound

\* st_stop with a fault: the script goes on after the error message.
st_stop_ignored == "navigation"

\* st.stop(): the run ends here.
st_stop == "stopped"

\* Lines 21-30: read and clean the data, or report the failure and stop.
Load ==
    /\ pc = "load"
    /\ \/ /\ file = "ok"
          /\ data' = dropna(read_csv(csv))
          /\ pc' = "navigation"
          /\ shown' = shown
       \/ /\ file = "missing"
          /\ shown' = Append(shown, "error: dataset file could not be found")
          /\ pc' = st_stop
          /\ data' = data
       \/ /\ file = "malformed"
          /\ shown' = Append(shown, "error: unexpected error while loading the data")
          /\ pc' = st_stop
          /\ data' = data
    /\ UNCHANGED <<file, csv, exception, page, summaryVars, filterVars, chartVars,
                   view, region_lengths>>

\* Line 35: the page the sidebar radio is on.
Pages == {"Airport Filter", "Charts & Analysis", "Map & Info"}

Navigation ==
    /\ pc = "navigation"
    /\ page' \in Pages
    /\ pc' = "summary_default"
    /\ UNCHANGED <<file, csv, data, shown, exception, summaryVars, filterVars,
                   chartVars, view, region_lengths>>

\* Line 52: region_summary(data), region left at its default.
SummaryDefault ==
    /\ pc = "summary_default"
    /\ LET r == region_summary(data, "US-CT")
       IN  count_default' = r[1] /\ elev_default' = r[2]
    /\ pc' = "summary_custom"
    /\ UNCHANGED <<file, csv, data, shown, exception, page, count_custom, elev_custom,
                   filterVars, chartVars, view, region_lengths>>

PageEntry ==
    CASE page = "Airport Filter"    -> "region_select"
      [] page = "Charts & Analysis" -> "region_counts"
      [] page = "Map & Info"        -> "map_view"

\* Line 53: region_summary(data, region='US-MA').
SummaryCustom ==
    /\ pc = "summary_custom"
    /\ LET r == region_summary(data, "US-MA")
       IN  count_custom' = r[1] /\ elev_custom' = r[2]
    /\ pc' = PageEntry
    /\ UNCHANGED <<file, csv, data, shown, exception, page, count_default, elev_default,
                   filterVars, chartVars, view, region_lengths>>

\* Lines 60-61: the region dropdown.
RegionSelect ==
    /\ pc = "region_select"
    /\ LET regions == unique(Column(data, "iso_region"))
       IN  IF sorted_raises(regions)
           THEN /\ exception' = "TypeError"
                /\ pc' = "crashed"
                /\ UNCHANGED <<region_list, selected_region>>
           ELSE /\ region_list' = sorted(regions)
                /\ selected_region' \in selectbox(region_list')
                /\ pc' = "region_filter"
                /\ exception' = exception
    /\ UNCHANGED <<file, csv, data, shown, page, summaryVars, region_airports, city_list,
                   selected_city, show_scheduled_only, city_filtered_airports,
                   chartVars, view, region_lengths>>

\* Lines 63-65: the airports of the region and the city dropdown.
RegionFilter ==
    /\ pc = "region_filter"
    /\ region_airports' = filter_by_region(data, selected_region)
    /\ city_list' = sorted(unique(series_dropna(Column(region_airports', "municipality"))))
    /\ selected_city' \in selectbox(city_list')
    /\ pc' = "scheduled_filter"
    /\ UNCHANGED <<file, csv, data, shown, exception, page, summaryVars, region_list,
                   selected_region, show_scheduled_only, city_filtered_airports,
                   chartVars, view, region_lengths>>

\* Lines 68-70: the checkbox and the scheduled-service filter.
ScheduledFilter ==
    /\ pc = "scheduled_filter"
    /\ show_scheduled_only' \in BOOLEAN
    /\ region_airports' =
           IF show_scheduled_only'
           THEN filter_scheduled_service(region_airports)
           ELSE region_airports
    /\ pc' = "city_filter"
    /\ UNCHANGED <<file, csv, data, shown, exception, page, summaryVars, region_list,
                   selected_region, city_list, selected_city, city_filtered_airports,
                   chartVars, view, region_lengths>>

\* Lines 80-84: the airports of the city, or the note that there are none.
CityFilter ==
    /\ pc = "city_filter"
    /\ city_filtered_airports' = filter_by_city(region_airports, selected_city)
    /\ shown' = IF city_filtered_airports' = <<>>
                THEN Append(shown, "No airports found in this city.")
                ELSE shown
    /\ pc' = "region_lengths"
    /\ UNCHANGED <<file, csv, data, exception, page, summaryVars, region_list,
                   selected_region, region_airports, city_list, selected_city,
                   show_scheduled_only, chartVars, view, region_lengths>>

\* Line 92: airports per region.
RegionCounts ==
    /\ pc = "region_counts"
    /\ region_counts' = value_counts(Column(data, "iso_region"))
    /\ pc' = "top_elev"
    /\ UNCHANGED <<file, csv, data, shown, exception, page, summaryVars, filterVars,
                   top_elev, pivot, view, region_lengths>>

\* Line 103: the highest airports.
TopElev ==
    /\ pc = "top_elev"
    /\ \E result \in sort_values_desc(data, "elevation_ft") :
          /\ top_elev' = head(result, TopN)
          /\ data' = after_sort_values(data, result)
    /\ pc' = "pivot"
    /\ UNCHANGED <<file, csv, shown, exception, page, summaryVars, filterVars,
                   region_counts, pivot, view, region_lengths>>

\* Line 116: airport type by region.
Pivot ==
    /\ pc = "pivot"
    /\ pivot' = pivot_table(data, "iso_region", "type")
    /\ pc' = "region_lengths"
    /\ UNCHANGED <<file, csv, data, shown, exception, page, summaryVars, filterVars,
                   region_counts, top_elev, view, region_lengths>>

\* Lines 125-127: the centre of the map.
MapView ==
    /\ pc = "map_view"
    /\ view' = <<series_mean(Column(data, "latitude_deg")),
                 series_mean(Column(data, "longitude_deg"))>>
    /\ pc' = "region_lengths"
    /\ UNCHANGED <<file, csv, data, shown, exception, page, summaryVars, filterVars,
                   chartVars, region_lengths>>

\* Line 158: len() of every region code; len(nan) raises TypeError.
RegionLengths ==
    /\ pc = "region_lengths"
    /\ LET regions == unique(Column(data, "iso_region"))
       IN  IF \E i \in 1..Len(regions) : isna(regions[i])
           THEN /\ exception' = "TypeError"
                /\ pc' = "crashed"
                /\ region_lengths' = region_lengths
           ELSE /\ region_lengths' = [i \in 1..Len(regions) |-> Len(regions[i])]
                /\ pc' = "derived_columns"
                /\ exception' = exception
    /\ UNCHANGED <<file, csv, data, shown, page, summaryVars, filterVars, chartVars, view>>

\* Lines 161-162: the two new columns; len(nan) in line 161 raises TypeError
\* before either is assigned.
DerivedColumns ==
    /\ pc = "derived_columns"
    /\ IF \E i \in 1..Len(data) : isna(data[i].name)
       THEN /\ exception' = "TypeError"
            /\ pc' = "crashed"
            /\ data' = data
       ELSE /\ data' = [i \in 1..Len(data) |->
                           data[i] @@ [name_length   |-> name_length(data[i].name),
                                       high_altitude |-> high_altitude(data[i].elevation_ft)]]
            /\ pc' = "done"
            /\ exception' = exception
    /\ UNCHANGED <<file, csv, shown, page, summaryVars, filterVars, chartVars, view,
                   region_lengths>>

Next ==
    \/ Load
    \/ Navigation
    \/ SummaryDefault
    \/ SummaryCustom
    \/ RegionSelect
    \/ RegionFilter
    \/ ScheduledFilter
    \/ CityFilter
    \/ RegionCounts
    \/ TopElev
    \/ Pivot
    \/ MapView
    \/ RegionLengths
    \/ DerivedColumns

Spec == Init /\ [][Next]_vars

\* ------------------------------------------------------------------
\* Positions of the run
\* ------------------------------------------------------------------

\* The load succeeded and the run is past it.
Loaded == file = "ok" /\ pc # "load"

EndOfScript == {"region_lengths", "derived_columns", "done"}

\* Both calls of region_summary have returned.
SummariesDone ==
    Loaded /\ pc \notin {"navigation", "summary_default", "summary_custom"}

\* Lines 60-61 have run without an exception.
RegionSelectDone ==
    /\ SummariesDone /\ page = "Airport Filter"
    /\ selected_region # Unbound

\* Lines 63-65 have run.
RegionFilterDone == RegionSelectDone /\ selected_city # Unbound

\* The Airport Filter page has run to its end.
FilterPageDone ==
    /\ RegionFilterDone
    /\ pc \in EndOfScript \/ (pc = "crashed" /\ exception = "TypeError")

TopElevDone ==
    SummariesDone /\ page = "Charts & Analysis" /\ pc \notin {"region_counts", "top_elev"}

PivotDone == TopElevDone /\ pc # "pivot"

MapViewDone == SummariesDone /\ page = "Map & Info" /\ pc # "map_view"

\* The columns read_csv gives a row, and its index label.
CsvFields ==
    {"name", "municipality", "iso_region", "type", "scheduled_service",
     "elevation_ft", "latitude_deg", "longitude_deg", "index"}

DerivedFields == {"name_length", "high_altitude"}

\* ------------------------------------------------------------------
\* C1
\* ------------------------------------------------------------------

\* C1: after a successful load, in every state in which a query can run,
\* every record of the table has a latitude and a longitude that are not
\* missing.
C1_CoordinatesPresent ==
    Loaded =>
        \A i \in 1..Len(data) :
            ~isnan(data[i].latitude_deg) /\ ~isnan(data[i].longitude_deg)

\* A load that dropped a row without latitude and a row without longitude
\* and kept a row, with the queries of a page under way.
C1_Witness ==
    /\ Loaded /\ pc = "city_filter"
    /\ \E i \in 1..Len(csv) : isnan(csv[i].latitude_deg)
    /\ \E i \in 1..Len(csv) : isnan(csv[i].longitude_deg)
    /\ Len(data) = 1 /\ Len(csv) = 3

\* ------------------------------------------------------------------
\* C2
\* ------------------------------------------------------------------

FailureMessage ==
    [missing   |-> "error: dataset file could not be found",
     malformed |-> "error: unexpected error while loading the data"]

NoQueryHasRun ==
    /\ count_default = Unbound /\ elev_default = Unbound
    /\ count_custom = Unbound /\ elev_custom = Unbound
    /\ region_list = Unbound /\ selected_region = Unbound
    /\ region_airports = Unbound /\ city_list = Unbound
    /\ selected_city = Unbound /\ city_filtered_airports = Unbound
    /\ region_counts = Unbound /\ top_elev = Unbound /\ pivot = Unbound
    /\ view = Unbound /\ region_lengths = Unbound
    /\ data = Unbound

\* C2: when the load fails, the failure is shown, a missing file with a
\* message of its own, and the run stops there: no query is ever executed
\* and no further step can be taken.
C2_LoadFailureStops ==
    (file # "ok" /\ pc # "load") =>
        /\ pc = "stopped"
        /\ shown = <<FailureMessage[file]>>
        /\ FailureMessage["missing"] # FailureMessage["malformed"]
        /\ NoQueryHasRun
        /\ ~ENABLED Next

\* A run stopped by a file that does not parse, and one stopped by a
\* missing file, tell the two apart on the page.
C2_Witness ==
    /\ file = "malformed" /\ pc = "stopped"
    /\ shown = <<"error: unexpected error while loading the data">>

\* ------------------------------------------------------------------
\* C4
\* ------------------------------------------------------------------

RegionCodes == {"US-CT", "US-MA"}

\* What the claim asks of region_summary(df, r) = <<count, max_elev>>.
SummaryIsRight(df, r, count, max_elev) ==
    LET members  == {i \in 1..Len(df) : df[i].iso_region = r}
        measured == {i \in members : ~isnan(df[i].elevation_ft)}
    IN  /\ count = Cardinality(members)
        /\ members = {} => count = 0 /\ isnan(max_elev) /\ max_elev # Float(0)
        /\ measured = {} => isnan(max_elev)
        /\ measured # {} =>
              /\ ~isnan(max_elev) /\ max_elev.den = 1
              /\ \E i \in measured : df[i].elevation_ft = max_elev
              /\ \A i \in measured : df[i].elevation_ft.num <= max_elev.num

\* C4: region_summary(d, r) returns the number of records of region r and
\* the largest elevation_ft among them; when no record has region r the
\* count is 0 and the elevation is nan, the marker of a missing value, which
\* is no number and in particular not 0.
C4_RegionSummary ==
    /\ Loaded =>
          \A r \in RegionCodes :
              LET res == region_summary(data, r)
              IN  SummaryIsRight(data, r, res[1], res[2])
    /\ SummariesDone =>
          /\ SummaryIsRight(data, "US-CT", count_default, elev_default)
          /\ SummaryIsRight(data, "US-MA", count_custom, elev_custom)

\* Both calls have returned: the default region has airports with an
\* elevation, the other region has none at all.
C4_Witness ==
    /\ SummariesDone
    /\ count_default = 2 /\ elev_default = Float(3000)
    /\ count_custom = 0 /\ isnan(elev_custom)
    /\ \E i \in 1..Len(data) : isnan(data[i].elevation_ft)

\* ------------------------------------------------------------------
\* C3
\* ------------------------------------------------------------------

\* C3: the mean coordinate of a table without records fails with
\* EmptyDatasetError instead of returning a value; of a table with one
\* record it is that record's latitude and longitude.
C3_MeanCoordinate ==
    MapViewDone =>
        /\ Len(data) = 0 => pc = "crashed" /\ exception = "EmptyDatasetError"
        /\ Len(data) = 1 => view = <<data[1].latitude_deg, data[1].longitude_deg>>

\* ------------------------------------------------------------------
\* C5
\* ------------------------------------------------------------------

RECURSIVE SumCells(_, _)
SumCells(table, cells) ==
    IF cells = {} THEN 0
    ELSE LET c == CHOOSE x \in cells : TRUE
         IN  table[c] + SumCells(table, cells \ {c})

\* C5 as claimed: the cells of the pivot table add up to the number of
\* records of the table, whatever is missing in them, and no cell is
\* negative.
C5_PivotSumIsTotal ==
    PivotDone =>
        /\ SumCells(pivot, DOMAIN pivot) = Len(data)
        /\ \A c \in DOMAIN pivot : pivot[c] >= 0

\* The records with both a region and a type.
Keyed(df) == {i \in 1..Len(df) : ~isna(df[i].iso_region) /\ ~isna(df[i].type)}

\* C5, amended: the cells of the pivot table add up to the number of
\* records that have both a region and a type (all records when none lacks
\* one), every cell is the number of records of its region and type and is
\* not negative, and the grid is the cross product of the regions and the
\* types of those records.
C5_PivotSumIsKeyed ==
    PivotDone =>
        /\ SumCells(pivot, DOMAIN pivot) = Cardinality(Keyed(data))
        /\ Keyed(data) = 1..Len(data) => SumCells(pivot, DOMAIN pivot) = Len(data)
        /\ DOMAIN pivot = {data[i].iso_region : i \in Keyed(data)}
                              \X {data[i].type : i \in Keyed(data)}
        /\ \A c \in DOMAIN pivot :
              /\ pivot[c] >= 0
              /\ pivot[c] = Cardinality({i \in 1..Len(data) :
                                data[i].iso_region = c[1] /\ data[i].type = c[2]})

\* A pivot table of three records, one without a type: two regions and two
\* types, a cell that holds 0, and a sum of 2.
C5_Witness ==
    /\ PivotDone
    /\ Len(data) = 3 /\ Cardinality(Keyed(data)) = 2
    /\ Cardinality(DOMAIN pivot) = 4
    /\ \E c \in DOMAIN pivot : pivot[c] = 0

\* ------------------------------------------------------------------
\* C6
\* ------------------------------------------------------------------

\* C6: the highest airports are the first TopN records of a stable sort by
\* elevation, largest first: min(TopN, |data|) records, elevations not
\* increasing, records of equal elevation in their order in the table, and
\* no record left out that should come before one that is in.
C6_TopNStable ==
    TopElevDone =>
        /\ Len(top_elev) = (IF TopN < Len(data) THEN TopN ELSE Len(data))
        /\ \A i, j \in 1..Len(top_elev) :
              i < j =>
                  /\ ~isnan(top_elev[i].elevation_ft) /\ ~isnan(top_elev[j].elevation_ft)
                  /\ top_elev[i].elevation_ft.num >= top_elev[j].elevation_ft.num
                  /\ top_elev[i].elevation_ft = top_elev[j].elevation_ft
                        => top_elev[i].index < top_elev[j].index
        /\ \A i \in 1..Len(top_elev) : \A k \in 1..Len(data) :
              (/\ data[k].elevation_ft = top_elev[i].elevation_ft
               /\ data[k].index < top_elev[i].index)
                  => \E j \in 1..Len(top_elev) : top_elev[j].index = data[k].index

\* ------------------------------------------------------------------
\* C7
\* ------------------------------------------------------------------

\* The list holds the distinct values of the column that are not missing,
\* each once, in ascending order.
DistinctSorted(list, col) ==
    /\ \A i \in 1..Len(list) : ~isna(list[i])
    /\ \A i, j \in 1..Len(list) : i < j => StrLess(list[i], list[j])
    /\ {list[i] : i \in 1..Len(list)} = {col[i] : i \in {j \in 1..Len(col) : ~isna(col[j])}}

\* C7: the region list and the city list of the dropdowns are produced, and
\* hold exactly the distinct non-missing values of their column, without
\* duplicates and strictly ascending, also when a record lacks the value.
C7_DistinctSorted ==
    /\ (/\ SummariesDone /\ page = "Airport Filter" /\ pc # "region_select")
          => /\ selected_region # Unbound
             /\ DistinctSorted(region_list, Column(data, "iso_region"))
    /\ RegionFilterDone
          => DistinctSorted(city_list,
                 Column(filter_by_region(data, selected_region), "municipality"))

\* ------------------------------------------------------------------
\* C8
\* ------------------------------------------------------------------

\* What the region and the city dropdown can return.
RegionChoices == {"US-CT", "US-MA", NA, None}

CityChoices == {"Avon", "Bolton", NA, None}

\* The records of df as read_csv gave them, without the derived columns.
CsvRows(df) == [i \in 1..Len(df) |-> [f \in CsvFields |-> df[i][f]]]

\* The records of df that satisfy every condition applied: byRegion,
\* byCity and scheduledOnly say which ones are.
Satisfying(df, byRegion, r, byCity, c, scheduledOnly) ==
    SelectSeq(df, LAMBDA row :
        /\ byRegion => (r \notin {NA, None} /\ row.iso_region = r)
        /\ byCity => (c \notin {NA, None} /\ row.municipality = c)
        /\ scheduledOnly => row.scheduled_service = "yes")

\* C8: the region filter, the city filter and the scheduled-service filter
\* give, applied alone or together and in any order, exactly the records
\* that satisfy every applied condition; the page's own result is of that
\* kind, and when it is empty the page says so and nothing is raised.
C8_FiltersCompose ==
    /\ (Loaded /\ pc = "navigation") =>
          \A r \in RegionChoices, c \in CityChoices :
              LET R(df) == filter_by_region(df, r)
                  C(df) == filter_by_city(df, c)
                  S(df) == filter_scheduled_service(df)
                  all   == Satisfying(data, TRUE, r, TRUE, c, TRUE)
              IN  /\ R(data) = Satisfying(data, TRUE, r, FALSE, c, FALSE)
                  /\ C(data) = Satisfying(data, FALSE, r, TRUE, c, FALSE)
                  /\ S(data) = Satisfying(data, FALSE, r, FALSE, c, TRUE)
                  /\ R(C(data)) = Satisfying(data, TRUE, r, TRUE, c, FALSE)
                  /\ C(R(data)) = R(C(data))
                  /\ R(S(data)) = Satisfying(data, TRUE, r, FALSE, c, TRUE)
                  /\ S(R(data)) = R(S(data))
                  /\ C(S(data)) = Satisfying(data, FALSE, r, TRUE, c, TRUE)
                  /\ S(C(data)) = C(S(data))
                  /\ R(C(S(data))) = all /\ R(S(C(data))) = all
                  /\ C(R(S(data))) = all /\ C(S(R(data))) = all
                  /\ S(R(C(data))) = all /\ S(C(R(data))) = all
    /\ (RegionFilterDone /\ pc # "scheduled_filter") =>
          region_airports =
              Satisfying(CsvRows(data), TRUE, selected_region, FALSE, selected_city,
                         show_scheduled_only)
    /\ FilterPageDone =>
          /\ city_filtered_airports =
                Satisfying(CsvRows(data), TRUE, selected_region, TRUE, selected_city,
                           show_scheduled_only)
          /\ pc = "region_lengths" => exception = "none"
          /\ city_filtered_airports = <<>>
                <=> shown = <<"No airports found in this city.">>

\* The page has filtered by region, scheduled service and city, there are
\* records without a region in the table, and no record is left.
C8_Witness ==
    /\ RegionFilterDone /\ pc = "region_lengths"
    /\ show_scheduled_only = TRUE
    /\ selected_region \in RegionCodes /\ selected_city # None
    /\ \E i \in 1..Len(data) : isna(data[i].municipality)
    /\ Len(filter_by_region(data, selected_region)) >= 2
    /\ city_filtered_airports = <<>>

\* ------------------------------------------------------------------
\* C9
\* ------------------------------------------------------------------

\* Every record of df carries the two derived attributes.
HasDerived(df) == \A i \in 1..Len(df) : DerivedFields \subseteq DOMAIN df[i]

\* No record of df carries a derived attribute.
NoDerived(df) == \A i \in 1..Len(df) : DerivedFields \cap DOMAIN df[i] = {}

C10_QueriesLeaveTable ==
    [][ /\ pc \notin {"load", "derived_columns"} => data' = data
        /\ pc = "derived_columns" =>
              /\ Len(data') = Len(data)
              /\ \A i \in 1..Len(data) :
                    \A f \in CsvFields : data'[i][f] = data[i][f] ]_vars

\* The sort has run and put the records in another order than the table's,
\* which still has them in the order of the file.
C10_Witness ==
    /\ PivotDone /\ pc = "done"
    /\ Len(data) = 3 /\ Len(top_elev) = TopN
    /\ top_elev[1].index > top_elev[2].index
    /\ \A i \in 1..Len(data) : data[i].index = i - 1
====
